---- MODULE Spec2Model ----
(***************************************************************************)
(* Model of streamlit_app.py: a Streamlit script that resolves an API key, *)
(* loads a persisted LlamaIndex index once per process (st.cache_resource) *)
(* and forwards the user's question to the index's query engine.           *)
(*                                                                         *)
(* One step of the model is one execution of the whole script (Streamlit   *)
(* re-executes the script on every user interaction).  The state that      *)
(* survives between executions is the process environment, the resource    *)
(* cache and the widgets the previous execution rendered.                  *)
(*                                                                         *)
(* Python values are records [type, val].  Exceptions raised by the        *)
(* collaborators (os, llama_index, the response object) are instances of   *)
(* Exception, the class the handlers of the source name.                   *)
(***************************************************************************)
EXTENDS Integers, Sequences, FiniteSets, TLC

\* ------------------------------------------------------------------ bounds
\* cap of the counter of loader-body executions
MaxLoads == 3

\* ----------------------------------------------------------- Python values
PyNone == [type |-> "NoneType", val |-> ""]

PyStr(s) == [type |-> "str", val |-> s]

\* st.secrets has no "OPENAI_API_KEY" entry: the subscript raises
Missing == [type |-> "KeyError", val |-> "OPENAI_API_KEY"]

\* the object load_index_from_storage returns
IndexHandle == [type |-> "VectorStoreIndex", val |-> "index_10k_storage"]

\* Python's "not x" for the values the script tests
Falsy(v) == v = PyNone \/ v = PyStr("")

\* ------------------------------------------------------------ literal text
NoKeyMsg == "OpenAI API key not found. Please set it in the Streamlit secrets or as an environment variable."

NoDirMsg == "The index_10k_storage directory doesn't exist. Please make sure it's correctly uploaded."

LoadErrPrefix == "Error loading index: "

NotLoadedMsg == "Error: Index not loaded properly."

QueryErrPrefix == "Error processing query: "

WarnMsg == "The index could not be loaded. Please check your setup."

EmptyQueryMsg == "Please enter a query."

\* ------------------------------------------------------------- input sets
\* what st.secrets["OPENAI_API_KEY"] yields in a run
SecretValues == {Missing, PyStr(""), PyStr("sk-secret")}

\* what os.environ holds for OPENAI_API_KEY when the process starts
EnvValues == {PyNone, PyStr(""), PyStr("sk-env")}

\* contents of the text area
Queries == {"", " churn? "}

\* the step of the loader body that raises, if any
LoadSteps == {"ok", "listdir", "from_defaults", "load_index_from_storage"}

\* str(e) of the exceptions the collaborators raise
ExcText == {"timeout"}

\* the structured object query_engine.query returns: its "response" attribute
\* (<<>> when it has none), its str() form, and whether str() raises
ResponseObjects ==
    {[field |-> <<v>>, repr |-> "repr", strRaises |-> FALSE] :
        v \in {PyStr("X"), PyStr(""), PyNone}}
      \cup {[field |-> <<>>, repr |-> "repr", strRaises |-> r] : r \in BOOLEAN}

NoObject == [field |-> <<>>, repr |-> "", strRaises |-> FALSE]

\* behaviour of the index's query interface during one call
Behaviours ==
    {[kind |-> k, text |-> m, obj |-> NoObject] :
        k \in {"as_query_engine_raises", "query_raises"}, m \in ExcText}
      \cup {[kind |-> "returns", text |-> m, obj |-> o] :
              m \in ExcText, o \in ResponseObjects}

\* one element put on the page: st.error, st.warning or st.write
Ui(kind, text) == <<kind, PyStr(text)>>

\* st.write(response): the value query_index returned, as it is
UiValue(kind, v) == <<kind, v>>

\* ------------------------------------------------- configuration (58-67)
\* try: st.secrets[...]  except: os.environ.get(...), st.error if falsy
\* variant: the environment variable is consulted before st.secrets
ResolveCredential_envFirst(secret, env) ==
    IF ~Falsy(env)
      THEN [key |-> env, ui |-> <<>>]
      ELSE [key |-> IF secret = Missing THEN env ELSE secret,
            ui |-> IF secret = Missing THEN <<Ui("error", NoKeyMsg)>> ELSE <<>>]

ResolveCredential(secret, env) ==
    IF secret # Missing
      THEN [key |-> secret, ui |-> <<>>]
      ELSE [key |-> env,
            ui |-> IF Falsy(env) THEN <<Ui("error", NoKeyMsg)>> ELSE <<>>]

\* os.environ["OPENAI_API_KEY"] = OPENAI_API_KEY: os.environ accepts str only
SetEnviron(key, env) ==
    IF key.type = "str"
      THEN [raised |-> "none", env |-> key]
      ELSE [raised |-> "TypeError", env |-> env]

\* ---------------------------------------------------- index loader (71-90)
\* the body of load_vector_index; step names the call that raises, if any
\* variant: the body without its except clause
load_vector_index_body_noexcept(dirExists, step, m) ==
    IF ~dirExists
      THEN [raised |-> "none", value |-> PyNone, ui |-> <<Ui("error", NoDirMsg)>>]
      ELSE IF step = "ok"
        THEN [raised |-> "none", value |-> IndexHandle,
              ui |-> <<Ui("write", "Index directory contents:"), Ui("write", "listdir")>>]
        ELSE [raised |-> "Exception", value |-> PyNone,
              ui |-> <<Ui("write", "Index directory contents:")>>]

load_vector_index_body(dirExists, step, m) ==
    IF ~dirExists
      THEN [raised |-> "none", value |-> PyNone, ui |-> <<Ui("error", NoDirMsg)>>]
      ELSE IF step = "ok"
        THEN [raised |-> "none", value |-> IndexHandle,
              ui |-> <<Ui("write", "Index directory contents:"), Ui("write", "listdir")>>]
        ELSE [raised |-> "none", value |-> PyNone,
              ui |-> <<Ui("write", "Index directory contents:")>>
                       \o (IF step = "listdir" THEN <<>> ELSE <<Ui("write", "listdir")>>)
                       \o <<Ui("error", LoadErrPrefix \o m)>>]

\* @st.cache_resource: the body runs on a miss and its return value is stored;
\* a hit returns the stored value.  store is <<>> or <<value>>.
\* variant: the loader without the decorator
load_vector_index_uncached(store, dirExists, step, m) ==
    LET r == load_vector_index_body(dirExists, step, m)
    IN  [raised |-> r.raised, value |-> r.value, ui |-> r.ui, executed |-> TRUE,
         store |-> IF r.raised = "none" THEN <<r.value>> ELSE store]

\* variant: a store that does not keep None
load_vector_index_retrynone(store, dirExists, step, m) ==
    IF store # <<>> /\ store # <<PyNone>>
      THEN [raised |-> "none", value |-> store[1], ui |-> <<>>, executed |-> FALSE,
            store |-> store]
      ELSE load_vector_index_uncached(store, dirExists, step, m)

load_vector_index(store, dirExists, step, m) ==
    IF store # <<>>
      THEN [raised |-> "none", value |-> store[1], ui |-> <<>>, executed |-> FALSE,
            store |-> store]
      ELSE LET r == load_vector_index_body(dirExists, step, m)
           IN  [raised |-> r.raised, value |-> r.value, ui |-> r.ui, executed |-> TRUE,
                store |-> IF r.raised = "none" THEN <<r.value>> ELSE store]

\* ------------------------------------------------ query dispatcher (94-110)
\* hasattr(response_obj, 'response') / response_obj.response / str(response_obj)
\* variant: always the str() form
Extract_strform(obj, m) ==
    IF obj.strRaises
      THEN [raised |-> "Exception", value |-> PyStr(m)]
      ELSE [raised |-> "none", value |-> PyStr(obj.repr)]

Extract(obj, m) ==
    IF obj.field # <<>>
      THEN [raised |-> "none", value |-> obj.field[1]]
      ELSE IF obj.strRaises
        THEN [raised |-> "Exception", value |-> PyStr(m)]
        ELSE [raised |-> "none", value |-> PyStr(obj.repr)]

\* the try block after the null check; raised = "Exception" when a collaborator
\* raises (value then carries str(e)).  sent is what query_engine.query received.
Dispatch(query_text, b) ==
    CASE b.kind = "as_query_engine_raises" ->
           [raised |-> "Exception", value |-> PyStr(b.text), asqe |-> TRUE, sent |-> <<>>]
      [] b.kind = "query_raises" ->
           [raised |-> "Exception", value |-> PyStr(b.text), asqe |-> TRUE,
            sent |-> <<query_text>>]
      [] OTHER ->
           LET x == Extract(b.obj, b.text)
           IN  [raised |-> x.raised, value |-> x.value, asqe |-> TRUE,
                sent |-> <<query_text>>]

\* None.as_query_engine(): the AttributeError a missing null check runs into
NoneDispatch ==
    [raised |-> "Exception",
     value |-> PyStr("'NoneType' object has no attribute 'as_query_engine'"),
     asqe |-> FALSE, sent |-> <<>>]

\* except Exception as e: return f"Error processing query: {str(e)}"
Trap(d) ==
    IF d.raised = "none"
      THEN [raised |-> "none", value |-> d.value, asqe |-> d.asqe, sent |-> d.sent]
      ELSE [raised |-> "none", value |-> PyStr(QueryErrPrefix \o d.value.val),
            asqe |-> d.asqe, sent |-> d.sent]

\* variant: no null check before the try block
query_index_nonullcheck(index, query_text, b) ==
    Trap(IF index = PyNone THEN NoneDispatch ELSE Dispatch(query_text, b))

\* variant: no except clause
query_index_notrap(index, query_text, b) ==
    IF Falsy(index)
      THEN [raised |-> "none", value |-> PyStr(NotLoadedMsg), asqe |-> FALSE, sent |-> <<>>]
      ELSE Dispatch(query_text, b)

query_index(index, query_text, b) ==
    IF Falsy(index)
      THEN [raised |-> "none", value |-> PyStr(NotLoadedMsg), asqe |-> FALSE, sent |-> <<>>]
      ELSE Trap(Dispatch(query_text, b))

\* the value of a run in which query_index was not called
NoCall == [raised |-> "none", value |-> PyNone, asqe |-> FALSE, sent |-> <<>>]

\* ------------------------------------------------------------ main (113-185)
\* lines 126-159: load the index, warn, render the form, handle the submit.
\* rendered: the text area and the button were put on the page (136-146).
\* variant: no test of the query text before the dispatch
main_noemptycheck(store, dirExists, step, m, submit, query, b) ==
    LET l == load_vector_index(store, dirExists, step, m)
        warn == IF Falsy(l.value) THEN <<Ui("warning", WarnMsg)>> ELSE <<>>
        c == IF submit THEN query_index(l.value, query, b) ELSE NoCall
    IN  IF l.raised # "none"
          THEN [raised |-> l.raised, store |-> l.store, executed |-> l.executed,
                index |-> PyNone, rendered |-> FALSE, dispatched |-> FALSE,
                call |-> NoCall, ui |-> l.ui]
          ELSE [raised |-> c.raised, store |-> l.store, executed |-> l.executed,
                index |-> l.value, rendered |-> TRUE, dispatched |-> submit,
                call |-> c,
                ui |-> l.ui \o warn
                         \o (IF submit /\ c.raised = "none"
                               THEN <<Ui("write", "### Response"), UiValue("response", c.value)>>
                               ELSE <<>>)]

main(store, dirExists, step, m, submit, query, b) ==
    LET l == load_vector_index(store, dirExists, step, m)
        warn == IF Falsy(l.value) THEN <<Ui("warning", WarnMsg)>> ELSE <<>>
        dispatched == submit /\ ~Falsy(PyStr(query))
        c == IF dispatched THEN query_index(l.value, query, b) ELSE NoCall
    IN  IF l.raised # "none"
          THEN [raised |-> l.raised, store |-> l.store, executed |-> l.executed,
                index |-> PyNone, rendered |-> FALSE, dispatched |-> FALSE,
                call |-> NoCall, ui |-> l.ui]
          ELSE [raised |-> c.raised, store |-> l.store, executed |-> l.executed,
                index |-> l.value, rendered |-> TRUE, dispatched |-> dispatched,
                call |-> c,
                ui |-> l.ui \o warn
                         \o (IF submit /\ Falsy(PyStr(query))
                               THEN <<Ui("error", EmptyQueryMsg)>>
                               ELSE <<>>)
                         \o (IF dispatched /\ c.raised = "none"
                               THEN <<Ui("write", "### Response"), UiValue("response", c.value)>>
                               ELSE <<>>)]

\* the value of a run that never reached main()
NoMain ==
    [raised |-> "none", store |-> <<>>, executed |-> FALSE, index |-> PyNone,
     rendered |-> FALSE, dispatched |-> FALSE, call |-> NoCall, ui |-> <<>>]

\* ------------------------------------------------------------------- state
VARIABLES
    environ,      \* os.environ.get("OPENAI_API_KEY") of the process
    store,        \* st.cache_resource's entry for load_vector_index: <<>> or <<value>>
    loadCount,    \* executions of the body of load_vector_index so far
    rendered,     \* the previous execution put the form and its button on the page
    run           \* what the latest execution of the script saw and did

vars == <<environ, store, loadCount, rendered, run>>

DefaultBehaviour == [kind |-> "returns", text |-> "timeout", obj |-> NoObject]

\* the query of execution r was dispatched to the handle and a collaborator raised
Failed(r) ==
    /\ r.dispatched
    /\ r.index # PyNone
    /\ \/ r.b.kind \in {"as_query_engine_raises", "query_raises"}
       \/ r.b.kind = "returns" /\ r.b.obj.field = <<>> /\ r.b.obj.strRaises

NoRun ==
    [ran |-> FALSE, afterFailed |-> FALSE, secret |-> Missing, envBefore |-> PyNone, key |-> PyNone, raised |-> "none",
     mainReached |-> FALSE, ui |-> <<>>, index |-> PyNone, executed |-> FALSE,
     dirExists |-> FALSE, step |-> "ok", submit |-> FALSE, query |-> "",
     b |-> DefaultBehaviour, dispatched |-> FALSE, call |-> NoCall,
     storeBefore |-> <<>>]

Init ==
    /\ environ \in EnvValues
    /\ store = <<>>
    /\ loadCount = 0
    /\ rendered = FALSE
    /\ run = NoRun

\* Inputs an execution never reads are held at one value: the failing step
\* when the loader body does not reach the library, the text area and the
\* query interface when no query is dispatched.
InputsRead(secret, dirExists, step, submit, query, b) ==
    LET crash == SetEnviron(ResolveCredential(secret, environ).key, environ).raised # "none"
    IN  /\ (crash \/ store # <<>> \/ ~dirExists) => step = "ok"
        /\ crash => ~dirExists /\ ~submit
        /\ ~submit => query = ""
        /\ (~submit \/ query = "") => b = DefaultBehaviour

\* One execution of the script, top to bottom.  The button can only report a
\* click when the previous execution rendered it.
ScriptRun(secret, dirExists, step, m, submit, query, b) ==
    /\ submit => rendered
    /\ InputsRead(secret, dirExists, step, submit, query, b)
    /\ LET cred == ResolveCredential(secret, environ)
           set == SetEnviron(cred.key, environ)
           mn == IF set.raised = "none"
                   THEN main(store, dirExists, step, m, submit, query, b)
                   ELSE [NoMain EXCEPT !.store = store]
       IN  /\ loadCount + (IF mn.executed THEN 1 ELSE 0) <= MaxLoads
           /\ environ' = set.env
           /\ store' = mn.store
           /\ loadCount' = loadCount + (IF mn.executed THEN 1 ELSE 0)
           /\ rendered' = mn.rendered
           /\ run' = [ran |-> TRUE, afterFailed |-> Failed(run), secret |-> secret,
                      envBefore |-> environ, key |-> cred.key,
                      raised |-> IF set.raised # "none" THEN set.raised
                                                         ELSE mn.raised,
                      mainReached |-> set.raised = "none",
                      ui |-> cred.ui \o mn.ui, index |-> mn.index,
                      executed |-> mn.executed, dirExists |-> dirExists, step |-> step,
                      submit |-> submit, query |-> query, b |-> b,
                      dispatched |-> mn.dispatched, call |-> mn.call,
                      storeBefore |-> store]

Next ==
    \E secret \in SecretValues, dirExists \in BOOLEAN, step \in LoadSteps,
       m \in ExcText, submit \in BOOLEAN, query \in Queries,
       b \in Behaviours \cup {DefaultBehaviour} :
        ScriptRun(secret, dirExists, step, m, submit, query, b)

Spec == Init /\ [][Next]_vars

TypeOK ==
    /\ environ \in (EnvValues \cup SecretValues) \ {Missing}
    /\ store \in {<<>>, <<PyNone>>, <<IndexHandle>>}
    /\ loadCount \in 0..MaxLoads
    /\ rendered \in BOOLEAN

\* ------------------------------------------------------------- properties
Shown(element) == \E i \in 1..Len(run.ui) : run.ui[i] = element

ErrorString(v) == \E t \in ExcText : v = PyStr(QueryErrPrefix \o t)

\* the answer the response object of behaviour b stands for
Answer(b) ==
    IF b.obj.field # <<>> THEN b.obj.field[1] ELSE PyStr(b.obj.repr)

\* C1: query_index called with a null handle returns exactly "Error: Index not
\* loaded properly." for every query string and every behaviour of the query
\* interface, and neither as_query_engine nor query is called.
C1_NullHandleFixedError ==
    /\ \A q \in Queries, b \in Behaviours :
         LET c == query_index(PyNone, q, b)
         IN  c.raised = "none" /\ c.value = PyStr(NotLoadedMsg) /\ ~c.asqe /\ c.sent = <<>>
    /\ (run.dispatched /\ run.index = PyNone) =>
         /\ run.call.value = PyStr(NotLoadedMsg)
         /\ ~run.call.asqe
         /\ run.call.sent = <<>>
         /\ Shown(UiValue("response", PyStr(NotLoadedMsg)))

C1_Witness ==
    /\ run.dispatched
    /\ run.index = PyNone
    /\ run.b.kind = "returns"
    /\ run.b.obj.field = <<PyStr("X")>>
    /\ run.call.value = PyStr(NotLoadedMsg)

\* C2: with a non-null handle, an exception raised by as_query_engine, by query
\* or while extracting the answer is caught: query_index returns a string that
\* begins with "Error processing query:", nothing propagates out of the script
\* run, and the next query on the same handle is dispatched and answered as the
\* query interface then answers.
C2_QueryFailureTrapped ==
    /\ Failed(run) =>
         /\ run.raised = "none"
         /\ ErrorString(run.call.value)
         /\ Shown(UiValue("response", run.call.value))
         /\ store = <<run.index>>
    /\ (run.afterFailed /\ run.submit /\ run.query # "") =>
         /\ run.raised = "none"
         /\ run.dispatched
         /\ run.index = IndexHandle
         /\ run.call.asqe
         /\ ~Failed(run) => run.call.value = Answer(run.b) /\ run.call.sent = <<run.query>>

C2_Witness ==
    /\ run.afterFailed
    /\ run.dispatched
    /\ run.b.kind = "returns"
    /\ run.b.obj.field = <<PyStr("X")>>
    /\ run.call.value = PyStr("X")

\* C3: when neither st.secrets nor the environment holds the credential, the
\* run shows the error, raises nothing uncaught and reaches main().
C3_MissingCredentialRunContinues ==
    (run.ran /\ run.secret = Missing /\ run.envBefore = PyNone) =>
        /\ Shown(Ui("error", NoKeyMsg))
        /\ run.raised = "none"
        /\ run.mainReached

\* C4: over any sequence of script runs the body of load_vector_index executes
\* at most once, whether it yielded a handle or None; once a result is stored
\* every later run gets that same result and the body does not run again.
C4_LoadBodyAtMostOnce ==
    [][/\ loadCount' <= 1
       /\ store # <<>> =>
            /\ store' = store
            /\ loadCount' = loadCount
            /\ ~run'.executed
            /\ run'.mainReached => run'.index = store[1]]_vars

C4_Witness ==
    /\ store = <<PyNone>>
    /\ loadCount = 1
    /\ run.mainReached
    /\ ~run.executed
    /\ run.storeBefore = <<PyNone>>
    /\ run.dirExists

\* C5: an execution of the loader body yields the handle exactly when the
\* directory exists and no step of the load raises; otherwise it yields None
\* and shows an error.  No exception escapes the loader.
C5_LoaderHandleOrNone ==
    run.executed =>
        /\ run.raised = "none"
        /\ run.index \in {PyNone, IndexHandle}
        /\ run.index = IndexHandle <=> (run.dirExists /\ run.step = "ok")
        /\ ~run.dirExists => Shown(Ui("error", NoDirMsg))
        /\ (run.dirExists /\ run.step # "ok") =>
             \E t \in ExcText : Shown(Ui("error", LoadErrPrefix \o t))
        /\ store = <<run.index>>

C5_Witness ==
    /\ run.executed
    /\ run.dirExists
    /\ run.step = "load_index_from_storage"
    /\ run.index = PyNone

\* C6: a submit with an empty query shows "Please enter a query." and does not
\* call query_index; query_index is called only for a submit with a non-empty
\* query, and every submit gives exactly one of the validation message or one
\* dispatch whose result is displayed.
C6_EmptyQueryNotDispatched ==
    /\ run.dispatched => run.submit /\ run.query # ""
    /\ (run.submit /\ run.query = "") =>
         ~run.dispatched /\ ~run.call.asqe /\ Shown(Ui("error", EmptyQueryMsg))
    /\ run.submit =>
         /\ run.raised = "none"
         /\ Shown(Ui("error", EmptyQueryMsg)) # run.dispatched
         /\ run.dispatched => Shown(UiValue("response", run.call.value))

C6_Witness ==
    /\ run.submit
    /\ run.query = ""
    /\ Shown(Ui("error", EmptyQueryMsg))
    /\ ~run.dispatched

\* C7: once the loader has yielded None, no later run executes the loader body
\* or calls the index's query interface, and every submit with a non-empty
\* query yields the fixed "index not loaded" error.
C7_LoadFailureDisablesQuerying ==
    [][store = <<PyNone>> =>
         /\ store' = store
         /\ loadCount' = loadCount
         /\ ~run'.executed
         /\ ~run'.call.asqe
         /\ run'.call.sent = <<>>
         /\ (run'.submit /\ run'.query # "") =>
              /\ run'.raised = "none"
              /\ run'.dispatched
              /\ run'.call.value = PyStr(NotLoadedMsg)]_vars

C7_Witness ==
    /\ store = <<PyNone>>
    /\ run.storeBefore = <<PyNone>>
    /\ run.submit
    /\ run.query # ""
    /\ run.dirExists
    /\ run.b.kind = "returns"
    /\ run.call.value = PyStr(NotLoadedMsg)
    /\ ~run.call.asqe

\* C8: when the query interface returns an object without raising, query_index
\* returns the value of its "response" attribute if it has one and its str()
\* form otherwise, and query received the query text unchanged.
C8_AnswerExtracted ==
    (run.dispatched /\ run.index # PyNone /\ run.b.kind = "returns" /\ ~Failed(run)) =>
        /\ run.call.value = Answer(run.b)
        /\ run.call.sent = <<run.query>>

C8_Witness ==
    /\ run.dispatched
    /\ run.index = IndexHandle
    /\ run.b.obj.field = <<PyStr("X")>>
    /\ run.b.obj.repr # "X"
    /\ run.call.value = PyStr("X")
    /\ run.call.sent = <<" churn? ">>

C10_ResponseIsText ==
    run.dispatched => run.call.value.type = "str"

====
